---- MODULE Spec2Model ----
(***************************************************************************)
(* Model of mongo-to-sql's match_stage (src/lib.rs): the translation of a  *)
(* document-style filter stage into the text of a SQL predicate.           *)
(*                                                                         *)
(* A serde_json::Value is a record [t, v]: t is the variant, v the         *)
(* payload.  Text payloads are sequences of one-character strings, so that *)
(* Display (quoted, escaped) and as_str (raw) are different conversions.   *)
(* A mapping's payload is the sequence of its <<key, value>> entries in    *)
(* the map's iteration order; keys are distinct.  Generated text is a      *)
(* string, built with \o as the code builds it with push_str and format!.  *)
(***************************************************************************)
EXTENDS Integers, Sequences, FiniteSets, TLC

VARIABLES stage, pc, idx, sql, op_values, result

vars == <<stage, pc, idx, sql, op_values, result>>

(* Values *)

Null == [t |-> "null", v |-> 0]
Bool(b) == [t |-> "bool", v |-> b]
Num(n) == [t |-> "num", v |-> n]
Str(cs) == [t |-> "str", v |-> cs]
Arr(s) == [t |-> "arr", v |-> s]
Obj(es) == [t |-> "obj", v |-> es]

(* The payload of an error variant that carries a String (a key or a tag). *)
KeyArg(k) == [t |-> "key", v |-> k]

(* Result<String, ToSqlError> *)
Ok(s) == [ok |-> TRUE, sql |-> s, kind |-> "", arg |-> Null]

Err(kind, arg) == [ok |-> FALSE, sql |-> "", kind |-> kind, arg |-> arg]

NoResult == [ok |-> FALSE, sql |-> "", kind |-> "none", arg |-> Null]

(* Text helpers *)

RECURSIVE join(_, _)
join(strs, sep) ==
    IF Len(strs) = 0 THEN ""
    ELSE IF Len(strs) = 1 THEN strs[1]
    ELSE strs[1] \o sep \o join(Tail(strs), sep)

(* Value::as_str on a text value: the characters as they are. *)
RECURSIVE as_str(_)
as_str(cs) == IF Len(cs) = 0 THEN "" ELSE cs[1] \o as_str(Tail(cs))

(* One character of a text value inside its JSON rendering. *)
EscapeChar(c) ==
    IF c = "\"" THEN "\\\""
    ELSE IF c = "\\" THEN "\\\\"
    ELSE c

RECURSIVE EscapeStr(_)
EscapeStr(cs) == IF Len(cs) = 0 THEN "" ELSE EscapeChar(cs[1]) \o EscapeStr(Tail(cs))

(* format!("{}", value): the compact JSON text of a value. *)
RECURSIVE Display(_)
Display(val) ==
    CASE val.t = "null" -> "null"
      [] val.t = "bool" -> IF val.v THEN "true" ELSE "false"
      [] val.t = "num" -> ToString(val.v)
      [] val.t = "str" -> "\"" \o EscapeStr(val.v) \o "\""
      [] val.t = "arr" ->
            "[" \o join([i \in 1..Len(val.v) |-> Display(val.v[i])], ",") \o "]"
      [] val.t = "obj" ->
            "{" \o join([i \in 1..Len(val.v) |->
                           "\"" \o val.v[i][1] \o "\":" \o Display(val.v[i][2])], ",")
                \o "}"

(* match_stage *)

op_keys == {"$and", "$or", "$nor"}

contains_key(obj, k) == \E i \in 1..Len(obj) : obj[i][1] = k

ComparisonTags == {"$gte", "$gt", "$lte", "$lt", "$eq", "$ne"}

(* ComparisonSymbol with the strict and the inclusive comparisons confused. *)
ComparisonSymbolLoose(tag) ==
    CASE tag = "$gte" -> ">="
      [] tag = "$gt" -> ">="
      [] tag = "$lte" -> "<="
      [] tag = "$lt" -> "<="
      [] tag = "$eq" -> "="
      [] tag = "$ne" -> "!="

ComparisonSymbol(tag) ==
    CASE tag = "$gte" -> ">="
      [] tag = "$gt" -> ">"
      [] tag = "$lte" -> "<="
      [] tag = "$lt" -> "<"
      [] tag = "$eq" -> "="
      [] tag = "$ne" -> "!="

(* MembershipVals that renders a non-sequence operand as no element at all. *)
MembershipValsNoCoerce(op_value) ==
    IF op_value.t = "arr"
    THEN [i \in 1..Len(op_value.v) |-> Display(op_value.v[i])]
    ELSE <<>>

(* The operand of $in / $nin as a list of rendered values. *)
MembershipVals(op_value) ==
    IF op_value.t = "arr"
    THEN [i \in 1..Len(op_value.v) |-> Display(op_value.v[i])]
    ELSE <<Display(op_value)>>

(* FirstEntry that consults the mapping's last entry. *)
LastEntry(op) == op[Len(op)]

(* The entry of an operator mapping that the dispatcher consults. *)
FirstEntry(op) == op[1]

(* OperatorDispatch that skips an unrecognized tag as it skips $options. *)
OperatorDispatchLenient(key, op) ==
    LET op_key == FirstEntry(op)[1]
        op_value == FirstEntry(op)[2]
    IN  CASE op_key \in ComparisonTags ->
                Ok(key \o " " \o ComparisonSymbol(op_key) \o " " \o Display(op_value))
          [] op_key = "$in" ->
                Ok(key \o " IN (" \o join(MembershipVals(op_value), ", ") \o ")")
          [] op_key = "$nin" ->
                Ok(key \o " NOT IN (" \o join(MembershipVals(op_value), ", ") \o ")")
          [] op_key = "$regex" ->
                IF op_value.t = "str"
                THEN Ok(key \o " ~ '" \o as_str(op_value.v) \o "'")
                ELSE Err("InvalidRegexValue", op_value)
          [] OTHER -> Ok("")

(* The match on op_key: the text pushed for a field, or the error returned. *)
OperatorDispatch(key, op) ==
    LET op_key == FirstEntry(op)[1]
        op_value == FirstEntry(op)[2]
    IN  CASE op_key \in ComparisonTags ->
                Ok(key \o " " \o ComparisonSymbol(op_key) \o " " \o Display(op_value))
          [] op_key = "$in" ->
                Ok(key \o " IN (" \o join(MembershipVals(op_value), ", ") \o ")")
          [] op_key = "$nin" ->
                Ok(key \o " NOT IN (" \o join(MembershipVals(op_value), ", ") \o ")")
          [] op_key = "$regex" ->
                IF op_value.t = "str"
                THEN Ok(key \o " ~ '" \o as_str(op_value.v) \o "'")
                ELSE Err("InvalidRegexValue", op_value)
          [] op_key = "$options" -> Ok("")
          [] OTHER -> Err("UnsupportedOperator", KeyArg(op_key))

(* The else branch: a field whose value is not a mapping. *)
ImplicitEquality(key, value) == key \o " = " \o Display(value)

(* Connective that joins every group with OR. *)
ConnectiveAlwaysOr(stage_obj) == " OR "

(* The separator of the joined sub-results. *)
Connective(stage_obj) ==
    IF contains_key(stage_obj, "$and") THEN " AND " ELSE " OR "

Wrap(s) == "(" \o s \o ")"

(* The group pushed after the loop, from the sub-stages' predicates. *)
GroupText(stage_obj, subs) ==
    Wrap(join([i \in 1..Len(subs) |-> Wrap(subs[i])], Connective(stage_obj)))

(* Collect that reports the last error in order instead of the first. *)
RECURSIVE CollectLast(_)
CollectLast(rs) ==
    IF Len(rs) = 0 THEN [ok |-> TRUE, vals |-> <<>>, err |-> NoResult]
    ELSE LET rest == CollectLast(Tail(rs))
         IN  IF ~rest.ok THEN rest
             ELSE IF ~rs[1].ok THEN [ok |-> FALSE, vals |-> <<>>, err |-> rs[1]]
             ELSE [ok |-> TRUE, vals |-> <<rs[1].sql>> \o rest.vals, err |-> NoResult]

(* collect::<Result<Vec<_>, _>>: the values, or the first error in order. *)
RECURSIVE Collect(_)
Collect(rs) ==
    IF Len(rs) = 0 THEN [ok |-> TRUE, vals |-> <<>>, err |-> NoResult]
    ELSE IF ~rs[1].ok THEN [ok |-> FALSE, vals |-> <<>>, err |-> rs[1]]
    ELSE LET rest == Collect(Tail(rs))
         IN  IF rest.ok
             THEN [ok |-> TRUE, vals |-> <<rs[1].sql>> \o rest.vals, err |-> NoResult]
             ELSE rest

RECURSIVE match_stage(_)
RECURSIVE StageLoop(_, _, _, _)

(* Combinator that puts the group where its key stood: before the field text. *)
CombinatorGroupFirst(stage_obj, acc, opv) ==
    IF Len(opv) = 0 THEN Ok(acc)
    ELSE LET c == Collect([i \in 1..Len(opv) |-> match_stage(opv[i])])
         IN  IF c.ok THEN Ok(GroupText(stage_obj, c.vals) \o acc) ELSE c.err

(* The part of match_stage after the loop over the stage's entries. *)
Combinator(stage_obj, acc, opv) ==
    IF Len(opv) = 0 THEN Ok(acc)
    ELSE LET c == Collect([i \in 1..Len(opv) |-> match_stage(opv[i])])
         IN  IF c.ok THEN Ok(acc \o GroupText(stage_obj, c.vals)) ELSE c.err

(* The loop over the stage's entries, from entry i on. *)
StageLoop(stage_obj, i, acc, opv) ==
    IF i > Len(stage_obj) THEN Combinator(stage_obj, acc, opv)
    ELSE LET key == stage_obj[i][1]
             value == stage_obj[i][2]
         IN  IF key \in op_keys
             THEN IF value.t = "arr"
                  THEN StageLoop(stage_obj, i + 1, acc, value.v)
                  ELSE Err("InvalidOperandValue", KeyArg(key))
             ELSE IF value.t = "obj"
             THEN IF Len(value.v) > 0
                  THEN LET r == OperatorDispatch(key, value.v)
                       IN  IF r.ok
                           THEN StageLoop(stage_obj, i + 1, acc \o r.sql, opv)
                           ELSE r
                  ELSE Err("MissingOperator", KeyArg(key))
             ELSE StageLoop(stage_obj, i + 1, acc \o ImplicitEquality(key, value), opv)

match_stage(st) ==
    IF st.t = "obj" THEN StageLoop(st.v, 1, "", <<>>) ELSE Err("InvalidStage", st)


(* Inputs: the stages match_stage is applied to. *)

MaxArr == 2

MaxOps == 2

MaxSubs == 2

MaxKeys == 3

SeqsUpTo(S, n) == UNION {[1..k -> S] : k \in 0..n}

DistinctKeys(es) == \A i, j \in 1..Len(es) : es[i][1] = es[j][1] => i = j

John == <<"J", "o", "h", "n">>

Active == <<"a", "c", "t">>

QuoteText == <<"a", "\"", "b", "\\">>

Pattern == <<"^", "j", "?", "n", "$">>

Scalars ==
    {Null, Bool(TRUE), Bool(FALSE), Num(21), Num(-3), Str(John), Str(QuoteText)}

Arrays == {Arr(s) : s \in SeqsUpTo({Num(21), Str(Active)}, MaxArr)}

Operands == Scalars \cup Arrays \cup {Obj(<< <<"k", Num(1)>> >>)}

Tags == ComparisonTags \cup {"$in", "$nin", "$regex", "$options", "$foo"}

(* Operator mappings: none, one entry with any operand, several entries. *)
OpMappings ==
    {<<>>}
    \cup {<< <<tag, operand>> >> : tag \in Tags, operand \in Operands}
    \cup {m \in SeqsUpTo(Tags \X {Str(Pattern), Num(21)}, MaxOps) :
            Len(m) >= 2 /\ DistinctKeys(m)}

FieldStages == {Obj(<< <<"name", Obj(m)>> >>) : m \in OpMappings}

OkLeaves ==
    { Obj(<< <<"status", Str(Active)>> >>),
      Obj(<< <<"age", Obj(<< <<"$gte", Num(21)>> >>)>> >>),
      Obj(<<>>) }

BadLeaves ==
    { Num(5),
      Obj(<< <<"name", Obj(<< <<"$foo", Str(John)>> >>)>> >>),
      Obj(<< <<"name", Obj(<< <<"$regex", Num(21)>> >>)>> >>) }

NestedStages ==
    { Obj(<< <<"$and", Arr(<<Obj(<< <<"a", Num(1)>> >>), Obj(<< <<"b", Obj(<<>>)>> >>)>>)>> >>),
      Obj(<< <<"$or", Arr(<<Obj(<< <<"a", Num(1)>> >>), Obj(<< <<"b", Bool(TRUE)>> >>)>>)>> >>),
      Obj(<< <<"$nor", Arr(<<Obj(<< <<"$or", Num(1)>> >>), Num(5)>>)>> >>),
      Obj(<< <<"$or", Arr(<<Obj(<< <<"$and", Arr(<<Str(John)>>)>> >>)>>)>> >>) }

SubStages == OkLeaves \cup BadLeaves \cup NestedStages

GroupStages ==
    {Obj(<< <<g, Arr(s)>> >>) : g \in op_keys, s \in SeqsUpTo(SubStages, MaxSubs)}

(* Entries of the stages with several keys: fields, a scalar under an *)
(* unrecognized $-key, and grouping keys. *)
Entries ==
    ({"a"} \X {Num(21), Arr(<<Num(1), Str(Active)>>), Obj(<< <<"$lt", Num(5)>> >>)})
    \cup ({"b"} \X {Str(John), Obj(<< <<"$options", Str(<<"i">>)>> >>),
                    Obj(<< <<"$foo", Num(1)>> >>)})
    \cup ({"$foo"} \X {Str(<<"b", "a", "r">>)})
    \cup ({"$and"} \X {Arr(<<>>), Arr(<<Obj(<< <<"x", Num(1)>> >>)>>),
                       Arr(<<Obj(<< <<"y", Num(2)>> >>), Num(5)>>)})
    \cup ({"$or"} \X {Arr(<<>>), Num(7),
                      Arr(<<Obj(<< <<"y", Num(2)>> >>), Obj(<< <<"z", Num(3)>> >>)>>)})
    \cup ({"$nor"} \X {Arr(<<Obj(<< <<"x", Num(1)>> >>)>>),
                       Arr(<<Obj(<< <<"y", Num(2)>> >>), Obj(<< <<"z", Num(3)>> >>)>>)})

MultiKeyStages == {Obj(es) : es \in {s \in SeqsUpTo(Entries, MaxKeys) : DistinctKeys(s)}}

Stages == Scalars \cup FieldStages \cup GroupStages \cup MultiKeyStages

(* The call match_stage(&stage), one step per branch of its code. *)

Init ==
    /\ stage \in Stages
    /\ pc = "start"
    /\ idx = 0
    /\ sql = ""
    /\ op_values = <<>>
    /\ result = NoResult

InLoop == pc = "loop" /\ idx <= Len(stage.v)

Return(r) ==
    /\ result' = r
    /\ pc' = "done"
    /\ UNCHANGED <<stage, idx, sql, op_values>>

EnterStage ==
    /\ pc = "start"
    /\ stage.t = "obj"
    /\ pc' = "loop"
    /\ idx' = 1
    /\ UNCHANGED <<stage, sql, op_values, result>>

InvalidStage ==
    /\ pc = "start"
    /\ stage.t # "obj"
    /\ Return(Err("InvalidStage", stage))

GroupingKey ==
    /\ InLoop
    /\ stage.v[idx][1] \in op_keys
    /\ stage.v[idx][2].t = "arr"
    /\ op_values' = stage.v[idx][2].v
    /\ idx' = idx + 1
    /\ UNCHANGED <<stage, pc, sql, result>>

InvalidOperandValue ==
    /\ InLoop
    /\ stage.v[idx][1] \in op_keys
    /\ stage.v[idx][2].t # "arr"
    /\ Return(Err("InvalidOperandValue", KeyArg(stage.v[idx][1])))

OperatorPush ==
    /\ InLoop
    /\ stage.v[idx][1] \notin op_keys
    /\ stage.v[idx][2].t = "obj"
    /\ Len(stage.v[idx][2].v) > 0
    /\ LET r == OperatorDispatch(stage.v[idx][1], stage.v[idx][2].v)
       IN  /\ r.ok
           /\ sql' = sql \o r.sql
    /\ idx' = idx + 1
    /\ UNCHANGED <<stage, pc, op_values, result>>

OperatorError ==
    /\ InLoop
    /\ stage.v[idx][1] \notin op_keys
    /\ stage.v[idx][2].t = "obj"
    /\ Len(stage.v[idx][2].v) > 0
    /\ LET r == OperatorDispatch(stage.v[idx][1], stage.v[idx][2].v)
       IN  /\ ~r.ok
           /\ Return(r)

MissingOperator ==
    /\ InLoop
    /\ stage.v[idx][1] \notin op_keys
    /\ stage.v[idx][2].t = "obj"
    /\ Len(stage.v[idx][2].v) = 0
    /\ Return(Err("MissingOperator", KeyArg(stage.v[idx][1])))

FieldEquality ==
    /\ InLoop
    /\ stage.v[idx][1] \notin op_keys
    /\ stage.v[idx][2].t # "obj"
    /\ sql' = sql \o ImplicitEquality(stage.v[idx][1], stage.v[idx][2])
    /\ idx' = idx + 1
    /\ UNCHANGED <<stage, pc, op_values, result>>

Combine ==
    /\ pc = "loop"
    /\ idx > Len(stage.v)
    /\ Return(Combinator(stage.v, sql, op_values))

Next ==
    \/ EnterStage
    \/ InvalidStage
    \/ GroupingKey
    \/ InvalidOperandValue
    \/ OperatorPush
    \/ OperatorError
    \/ MissingOperator
    \/ FieldEquality
    \/ Combine

Spec == Init /\ [][Next]_vars

(* The step-by-step call and the recursive definition give the same result. *)
StepsAgree == pc = "done" => result = match_stage(stage)

(* Claims *)

Done == pc = "done"

Recognized == ComparisonTags \cup {"$in", "$nin", "$regex", "$options"}

IsScalar(val) == val.t \in {"null", "bool", "num", "str"}

(* The stage is {field: M}: one key, not a grouping key, holding a mapping. *)
OneField == stage.t = "obj" /\ Len(stage.v) = 1 /\ stage.v[1][1] \notin op_keys
            /\ stage.v[1][2].t = "obj"

Field == stage.v[1][1]

Mapping == stage.v[1][2].v

(* The stage is {field: {tag: operand}}. *)
OneOperator == OneField /\ Len(Mapping) = 1

HasTag(m, tag) == \E i \in 1..Len(m) : m[i][1] = tag

(* An entry of a stage that makes the loop return an error. *)
EntryFails(e) ==
    IF e[1] \in op_keys THEN e[2].t # "arr"
    ELSE e[2].t = "obj" /\ (Len(e[2].v) = 0 \/ ~OperatorDispatch(e[1], e[2].v).ok)

OwnKeysOk(es) == \A i \in 1..Len(es) : ~EntryFails(es[i])

GroupIdx(es) == {i \in 1..Len(es) : es[i][1] \in op_keys}

(* The grouping key met last in iteration order, and its sub-stages. *)
WinningIdx(es) == CHOOSE i \in GroupIdx(es) : \A j \in GroupIdx(es) : j <= i

WinningKey(es) == es[WinningIdx(es)][1]

WinningSubs(es) == IF GroupIdx(es) = {} THEN <<>> ELSE es[WinningIdx(es)][2].v

(* The text of the field keys of a stage whose keys process without error. *)
RECURSIVE FieldsText(_)
FieldsText(es) ==
    IF Len(es) = 0 THEN ""
    ELSE LET key == es[1][1]
             value == es[1][2]
         IN  (IF key \in op_keys THEN ""
              ELSE IF value.t = "obj" THEN OperatorDispatch(key, value.v).sql
              ELSE key \o " = " \o Display(value))
             \o FieldsText(Tail(es))

Translated(subs) == [i \in 1..Len(subs) |-> "(" \o match_stage(subs[i]).sql \o ")"]

AllOk(subs) == \A i \in 1..Len(subs) : match_stage(subs[i]).ok

\* C1: a stage {field: {op: value}} with op one of the six comparison operators
\* and value a scalar translates to Ok("<field> <SQLOP> <value>"), SQLOP being
\* >=, >, <=, <, =, != respectively, text in double quotes and numbers bare.
C1_Comparison ==
    (Done /\ OneOperator /\ Mapping[1][1] \in ComparisonTags /\ IsScalar(Mapping[1][2]))
    => LET tag == Mapping[1][1]
           value == Mapping[1][2]
           sqlop == CASE tag = "$gte" -> ">=" [] tag = "$gt" -> ">"
                      [] tag = "$lte" -> "<=" [] tag = "$lt" -> "<"
                      [] tag = "$eq" -> "=" [] tag = "$ne" -> "!="
           rendered == CASE value.t = "str" -> "\"" \o EscapeStr(value.v) \o "\""
                         [] value.t = "num" -> ToString(value.v)
                         [] value.t = "bool" -> IF value.v THEN "true" ELSE "false"
                         [] value.t = "null" -> "null"
       IN  result = Ok(Field \o " " \o sqlop \o " " \o rendered)

C1_Witness ==
    Done /\ OneOperator /\ Mapping[1] = <<"$gt", Str(John)>>
    /\ result = Ok("name > \"John\"")

\* C2: a stage whose only key is one grouping key with N >= 1 sub-stages that
\* all translate gives "(" (s1) C (s2) C ... ")" with C = " AND " for $and and
\* " OR " for $or and for $nor.
C2_SingleGroup ==
    (Done /\ stage.t = "obj" /\ Len(stage.v) = 1 /\ stage.v[1][1] \in op_keys
        /\ stage.v[1][2].t = "arr" /\ Len(stage.v[1][2].v) >= 1
        /\ AllOk(stage.v[1][2].v))
    => result = Ok("(" \o join(Translated(stage.v[1][2].v),
                               IF stage.v[1][1] = "$and" THEN " AND " ELSE " OR ")
                   \o ")")

C2_Witness ==
    Done /\ stage.t = "obj" /\ Len(stage.v) = 1 /\ stage.v[1][1] = "$and"
    /\ stage.v[1][2].t = "arr" /\ Len(stage.v[1][2].v) = 2
    /\ result = Ok("((status = \"act\") AND (age >= 21))")

\* C3: a stage {field: {"$in": operand}} gives "<field> IN (<list>)", the list
\* being the rendered elements joined by ", " for a sequence operand and the
\* one rendered operand otherwise; $nin gives the same with NOT IN.
C3_Membership ==
    (Done /\ OneOperator /\ Mapping[1][1] \in {"$in", "$nin"})
    => LET operand == Mapping[1][2]
           list == IF operand.t = "arr"
                   THEN join([i \in 1..Len(operand.v) |-> Display(operand.v[i])], ", ")
                   ELSE Display(operand)
           word == IF Mapping[1][1] = "$in" THEN " IN (" ELSE " NOT IN ("
       IN  result = Ok(Field \o word \o list \o ")")

C3_Witness ==
    Done /\ OneOperator /\ Mapping[1] = <<"$nin", Num(21)>>
    /\ result = Ok("name NOT IN (21)")

\* C4: a stage {field: M} whose mapping M holds a $regex entry with a text
\* operand and an $options entry gives "<field> ~ '<pat>'", whichever of the
\* two comes first in M.
C4_RegexWithOptions ==
    (Done /\ OneField /\ Len(Mapping) = 2
        /\ \E i \in 1..2 : Mapping[i][1] = "$regex" /\ Mapping[i][2].t = "str"
        /\ HasTag(Mapping, "$options"))
    => \E i \in 1..2 :
          /\ Mapping[i][1] = "$regex"
          /\ result = Ok(Field \o " ~ '" \o as_str(Mapping[i][2].v) \o "'")

\* C5 as stated: a stage with an unrecognized operator tag, as a key of the
\* stage holding a scalar or as the tag of a field's one-entry mapping, gives
\* the UnsupportedOperator error naming the tag.
C5_AnyUnrecognizedTag ==
    (Done /\ stage.t = "obj" /\ Len(stage.v) = 1
        /\ \/ stage.v[1][1] = "$foo" /\ IsScalar(stage.v[1][2])
           \/ OneOperator /\ Mapping[1][1] \notin Recognized)
    => result = Err("UnsupportedOperator",
                    KeyArg(IF OneOperator THEN Mapping[1][1] ELSE stage.v[1][1]))

\* C5: a stage in which the first entry that fails is a field whose operator
\* mapping has an unrecognized first tag gives the UnsupportedOperator error
\* naming that tag; an unrecognized $-key of the stage itself that holds a
\* scalar is a field, and alone it gives Ok("$foo = <value>").
C5_Unsupported ==
    /\ (Done /\ stage.t = "obj")
       => \A i \in 1..Len(stage.v) :
             (/\ stage.v[i][1] \notin op_keys
              /\ stage.v[i][2].t = "obj"
              /\ Len(stage.v[i][2].v) > 0
              /\ stage.v[i][2].v[1][1] \notin Recognized
              /\ \A j \in 1..(i - 1) : ~EntryFails(stage.v[j]))
             => result = Err("UnsupportedOperator", KeyArg(stage.v[i][2].v[1][1]))
    /\ (Done /\ stage.t = "obj" /\ Len(stage.v) = 1
           /\ stage.v[1][1] = "$foo" /\ IsScalar(stage.v[1][2]))
       => result = Ok("$foo = " \o Display(stage.v[1][2]))

C5_Witness ==
    Done /\ stage.t = "obj" /\ Len(stage.v) = 2
    /\ stage.v[1] = <<"a", Num(21)>>
    /\ stage.v[2] = <<"b", Obj(<< <<"$foo", Num(1)>> >>)>>
    /\ result = Err("UnsupportedOperator", KeyArg("$foo"))

\* C6: in a stage with two or more grouping keys, each holding a sequence, the
\* sub-stages translated are those of the key met last, and they are joined
\* with " AND " exactly when that key is $and, with " OR " otherwise.
C6_WinningKeyConnective ==
    (Done /\ stage.t = "obj" /\ Cardinality(GroupIdx(stage.v)) >= 2
        /\ OwnKeysOk(stage.v) /\ Len(WinningSubs(stage.v)) >= 1
        /\ AllOk(WinningSubs(stage.v)))
    => result = Ok(FieldsText(stage.v)
                   \o "(" \o join(Translated(WinningSubs(stage.v)),
                                  IF WinningKey(stage.v) = "$and" THEN " AND "
                                  ELSE " OR ")
                   \o ")")

\* C7: whenever match_stage returns Ok, the predicate is a non-empty string.
C7_NonEmpty == (Done /\ result.ok) => result.sql # ""

\* C8: when the stage's own keys process without error and a sub-stage of the
\* winning grouping key fails, the result is exactly the error of the first
\* failing sub-stage in sequence order.
C8_FailFast ==
    (Done /\ stage.t = "obj" /\ OwnKeysOk(stage.v))
    => LET subs == WinningSubs(stage.v)
       IN  \A i \in 1..Len(subs) :
              (~match_stage(subs[i]).ok /\ \A j \in 1..(i - 1) : match_stage(subs[j]).ok)
              => result = match_stage(subs[i])

C8_Witness ==
    /\ Done /\ stage.t = "obj" /\ OwnKeysOk(stage.v)
    /\ LET subs == WinningSubs(stage.v)
       IN  /\ Len(subs) = 2
           /\ subs[1] \in NestedStages
           /\ ~match_stage(subs[1]).ok
           /\ ~match_stage(subs[2]).ok
           /\ match_stage(subs[1]) # match_stage(subs[2])
           /\ result = match_stage(subs[1])

(* The stage with every operator mapping cut down to its first entry. *)
Reduced(st) ==
    Obj([i \in 1..Len(st.v) |->
           IF st.v[i][1] \notin op_keys /\ st.v[i][2].t = "obj" /\ Len(st.v[i][2].v) >= 2
           THEN <<st.v[i][1], Obj(<<st.v[i][2].v[1]>>)>>
           ELSE st.v[i]])

C10_Concatenation ==
    (Done /\ stage.t = "obj" /\ Len(stage.v) >= 2 /\ result.ok)
    => LET subs == WinningSubs(stage.v)
       IN  IF Len(subs) = 0 THEN result.sql = FieldsText(stage.v)
           ELSE \E c \in {" AND ", " OR "} :
                   result.sql = FieldsText(stage.v)
                                \o "(" \o join(Translated(subs), c) \o ")"

C10_Witness ==
    Done /\ stage.t = "obj" /\ Len(stage.v) = 3
    /\ stage.v[1][1] = "$nor"
    /\ result = Ok("a = [1,\"act\"]b = \"John\"((y = 2) OR (z = 3))")

====
